---- MODULE Spec2Model ----
(***************************************************************************)
(* A model of the source aggregator of trendFinder.                        *)
(*                                                                         *)
(*   src/src/services/scrapeSources.ts  the current aggregator             *)
(*   src/unnamed/part_000               an earlier variant of the same     *)
(*                                      file (the "legacy" variant)        *)
(*                                                                         *)
(* Source strings are sequences of one-character strings, so that URL      *)
(* parsing, case folding and prefix/suffix tests are computed and not      *)
(* assumed.  Texts carried by backend payloads (headlines, links, ids,     *)
(* dates) are sequences of symbols: " " is one whitespace character and    *)
(* every other symbol stands for a fixed non-empty string without          *)
(* whitespace, which is all that trim(), truthiness and concatenation can  *)
(* tell apart.  The literals are written so that different sequences spell *)
(* different strings.                                                      *)
(***************************************************************************)
EXTENDS Integers, Sequences, FiniteSets, TLC

(***************************************************************************)
(* Bounds of the model.                                                    *)
(***************************************************************************)
\* longest source list handed to scrapeSources
MaxSources == 2
\* longest raw item list handed to mapApifyItemsToStories in MapSpec
MaxItems == 3

(***************************************************************************)
(* Strings as character sequences (String.prototype methods).              *)
(***************************************************************************)
UpperCase ==
  <<"A", "B", "C", "D", "E", "F", "G", "H", "I", "J", "K", "L", "M",
    "N", "O", "P", "Q", "R", "S", "T", "U", "V", "W", "X", "Y", "Z">>
LowerCase ==
  <<"a", "b", "c", "d", "e", "f", "g", "h", "i", "j", "k", "l", "m",
    "n", "o", "p", "q", "r", "s", "t", "u", "v", "w", "x", "y", "z">>
Digits == {"0", "1", "2", "3", "4", "5", "6", "7", "8", "9"}
Letters == {UpperCase[i] : i \in 1..26} \cup {LowerCase[i] : i \in 1..26}

\* one character of String.prototype.toLowerCase (ASCII range)
LowerChar(c) ==
  IF \E i \in 1..26 : UpperCase[i] = c
  THEN LowerCase[CHOOSE i \in 1..26 : UpperCase[i] = c]
  ELSE c

toLowerCase(s) == [i \in 1..Len(s) |-> LowerChar(s[i])]

startsWith(s, p) == Len(p) <= Len(s) /\ SubSeq(s, 1, Len(p)) = p

endsWith(s, p) ==
  Len(p) <= Len(s) /\ SubSeq(s, Len(s) - Len(p) + 1, Len(s)) = p

\* s.slice(from - 1): the characters from position `from` (1-based) on
Drop(s, from) == SubSeq(s, from, Len(s))

\* position of the first character of s that is in set, Len(s) + 1 if none
FirstIndex(s, set) ==
  IF \E i \in 1..Len(s) : s[i] \in set
  THEN CHOOSE i \in 1..Len(s) :
         s[i] \in set /\ \A j \in 1..(i - 1) : s[j] \notin set
  ELSE Len(s) + 1

\* position of the last character of s that is in set, 0 if none
LastIndex(s, set) ==
  IF \E i \in 1..Len(s) : s[i] \in set
  THEN CHOOSE i \in 1..Len(s) :
         s[i] \in set /\ \A j \in (i + 1)..Len(s) : s[j] \notin set
  ELSE 0

\* s without the characters of set at its two ends
StripEnds(s, set) ==
  IF \A i \in 1..Len(s) : s[i] \in set
  THEN <<>>
  ELSE LET a == CHOOSE i \in 1..Len(s) :
                  s[i] \notin set /\ \A j \in 1..(i - 1) : s[j] \in set
           b == CHOOSE i \in 1..Len(s) :
                  s[i] \notin set /\ \A j \in (i + 1)..Len(s) : s[j] \in set
       IN  SubSeq(s, a, b)

\* s without its leading characters of set
SkipLeading(s, set) ==
  IF \A i \in 1..Len(s) : s[i] \in set
  THEN <<>>
  ELSE Drop(s, CHOOSE i \in 1..Len(s) :
                 s[i] \notin set /\ \A j \in 1..(i - 1) : s[j] \in set)

\* s.split(sep) for a one-character separator
RECURSIVE split(_, _)
split(s, sep) ==
  LET i == FirstIndex(s, {sep})
  IN  IF i > Len(s)
      THEN <<s>>
      ELSE <<SubSeq(s, 1, i - 1)>> \o split(Drop(s, i + 1), sep)

\* xs.filter(Boolean) on a list of strings: the empty string is falsy
filterBoolean(xs) == SelectSeq(xs, LAMBDA x : x # <<>>)

(***************************************************************************)
(* The platform's URL class (WHATWG URL), for the part of its grammar the  *)
(* classifier reads: scheme, userinfo, host, port, path, query, fragment.  *)
(* Not modelled: percent-encoding, dot-segment removal, IDNA, IPv6 hosts   *)
(* and tab/newline removal; no modelled input uses them.                   *)
(***************************************************************************)
SchemeChars == Letters \cup Digits \cup {"+", "-", "."}
ForbiddenHostChars == {" ", "<", ">", "[", "]", "^", "|", "%"}
SpecialSchemes == {<<"h", "t", "t", "p">>, <<"h", "t", "t", "p", "s">>}

URLFailure == [ok |-> FALSE, hostname |-> <<>>, pathname |-> <<>>]

\* authority and path of what follows the scheme's slashes
URLAuthority(rest, special) ==
  LET stop == IF special THEN {"/", "\\", "?", "#"} ELSE {"/", "?", "#"}
      authEnd == FirstIndex(rest, stop)
      authority == SubSeq(rest, 1, authEnd - 1)
      afterAuth == Drop(rest, authEnd)
      hostport == Drop(authority, LastIndex(authority, {"@"}) + 1)
      colon == FirstIndex(hostport, {":"})
      host == SubSeq(hostport, 1, colon - 1)
      port == Drop(hostport, colon + 1)
      path == SubSeq(afterAuth, 1, FirstIndex(afterAuth, {"?", "#"}) - 1)
  IN  IF \/ \E i \in 1..Len(port) : port[i] \notin Digits
         \/ \E i \in 1..Len(host) : host[i] \in ForbiddenHostChars
         \/ special /\ host = <<>>
      THEN URLFailure
      ELSE [ok |-> TRUE,
            hostname |-> IF special THEN toLowerCase(host) ELSE host,
            pathname |-> IF special /\ path = <<>> THEN <<"/">> ELSE path]

\* new URL(input): ok = FALSE stands for the TypeError it throws
URL(input) ==
  LET s == StripEnds(input, {" "})
      colon == FirstIndex(s, {":"})
      scheme == toLowerCase(SubSeq(s, 1, colon - 1))
      rest == Drop(s, colon + 1)
  IN  IF \/ colon > Len(s)
         \/ scheme = <<>>
         \/ scheme[1] \notin Letters
         \/ \E i \in 1..Len(scheme) : scheme[i] \notin SchemeChars
      THEN URLFailure
      ELSE IF scheme \in SpecialSchemes
      THEN URLAuthority(SkipLeading(rest, {"/", "\\"}), TRUE)
      ELSE IF startsWith(rest, <<"/", "/">>)
      THEN URLAuthority(Drop(rest, 3), FALSE)
      ELSE [ok |-> TRUE, hostname |-> <<>>,
            pathname |-> SubSeq(rest, 1, FirstIndex(rest, {"?", "#"}) - 1)]

(***************************************************************************)
(* The source strings of the model.                                        *)
(***************************************************************************)
\* "https://x.com/OpenAI"
SrcOpenAI ==
  <<"h", "t", "t", "p", "s", ":", "/", "/", "x", ".", "c", "o", "m", "/",
    "O", "p", "e", "n", "A", "I">>
\* "x.com/openai"
SrcOpenAIBare ==
  <<"x", ".", "c", "o", "m", "/", "o", "p", "e", "n", "a", "i">>
\* "https://twitter.com/@sama"
SrcAtHandle ==
  <<"h", "t", "t", "p", "s", ":", "/", "/", "t", "w", "i", "t", "t", "e",
    "r", ".", "c", "o", "m", "/", "@", "s", "a", "m", "a">>
\* "https://x.com/hashtag/ai"
SrcHashtag ==
  <<"h", "t", "t", "p", "s", ":", "/", "/", "x", ".", "c", "o", "m", "/",
    "h", "a", "s", "h", "t", "a", "g", "/", "a", "i">>
\* "https://X.com/Search?q=ai"
SrcSearch ==
  <<"h", "t", "t", "p", "s", ":", "/", "/", "X", ".", "c", "o", "m", "/",
    "S", "e", "a", "r", "c", "h", "?", "q", "=", "a", "i">>
\* "mobile.twitter.com/I/lists"
SrcSubdomainI ==
  <<"m", "o", "b", "i", "l", "e", ".", "t", "w", "i", "t", "t", "e", "r",
    ".", "c", "o", "m", "/", "I", "/", "l", "i", "s", "t", "s">>
\* "netflix.com/title"
SrcNetflix ==
  <<"n", "e", "t", "f", "l", "i", "x", ".", "c", "o", "m", "/", "t", "i",
    "t", "l", "e">>
\* "https://example.com/ai-news"
SrcNews ==
  <<"h", "t", "t", "p", "s", ":", "/", "/", "e", "x", "a", "m", "p", "l",
    "e", ".", "c", "o", "m", "/", "a", "i", "-", "n", "e", "w", "s">>
\* "https://x.com/"
SrcRoot ==
  <<"h", "t", "t", "p", "s", ":", "/", "/", "x", ".", "c", "o", "m", "/">>
\* "not a url"
SrcUnparsable ==
  <<"n", "o", "t", " ", "a", " ", "u", "r", "l">>

SourceStrings ==
  {SrcOpenAI, SrcOpenAIBare, SrcAtHandle, SrcHashtag, SrcSearch,
   SrcSubdomainI, SrcNetflix, SrcNews, SrcRoot, SrcUnparsable}

(***************************************************************************)
(* extractTwitterUsername: the classifier of the current aggregator.       *)
(***************************************************************************)
HttpPrefix == <<"h", "t", "t", "p">>
HttpsScheme == <<"h", "t", "t", "p", "s", ":", "/", "/">>
XDomain == <<"x", ".", "c", "o", "m">>
TwitterDomain == <<"t", "w", "i", "t", "t", "e", "r", ".", "c", "o", "m">>
ReservedSegments ==
  {<<"i">>, <<"h", "a", "s", "h", "t", "a", "g">>,
   <<"s", "e", "a", "r", "c", "h">>}

\* a string | null result: isNull marks null, v is the string otherwise
Null == [isNull |-> TRUE, v |-> <<>>]
Str(s) == [isNull |-> FALSE, v |-> s]
\* JavaScript truthiness of a string | null value
Truthy(x) == ~x.isNull /\ x.v # <<>>

\* firstSegment.replace(/^@/, "")
StripLeadingAt(s) == IF s # <<>> /\ s[1] = "@" THEN Drop(s, 2) ELSE s

\* extractTwitterUsername comparing the first segment to the reserved
\* keywords without lowering its case
extractTwitterUsernameCaseSensitive(source) ==
  LET url == URL(IF startsWith(source, HttpPrefix)
                 THEN source
                 ELSE HttpsScheme \o source)
      host == toLowerCase(url.hostname)
      segments == filterBoolean(split(url.pathname, "/"))
  IN  IF ~url.ok
      THEN Null
      ELSE IF ~endsWith(host, XDomain) /\ ~endsWith(host, TwitterDomain)
      THEN Null
      ELSE IF segments = <<>>
      THEN Null
      ELSE IF segments[1] \in ReservedSegments
      THEN Null
      ELSE Str(StripLeadingAt(segments[1]))

extractTwitterUsername(source) ==
  LET url == URL(IF startsWith(source, HttpPrefix)
                 THEN source
                 ELSE HttpsScheme \o source)
      host == toLowerCase(url.hostname)
      segments == filterBoolean(split(url.pathname, "/"))
  IN  IF ~url.ok
      THEN Null                                   \* catch { return null }
      ELSE IF ~endsWith(host, XDomain) /\ ~endsWith(host, TwitterDomain)
      THEN Null
      ELSE IF segments = <<>>
      THEN Null
      ELSE IF toLowerCase(segments[1]) \in ReservedSegments
      THEN Null
      ELSE Str(StripLeadingAt(segments[1]))

(***************************************************************************)
(* Values of backend payloads: a field is absent (undefined) or a string.  *)
(***************************************************************************)
Undef == [k |-> "undef", v |-> <<>>]
S(text) == [k |-> "str", v |-> text]

\* JavaScript truthiness of a string | undefined field
TruthyV(x) == x.k = "str" /\ x.v # <<>>
\* a ?? b
Coalesce(a, b) == IF a.k = "undef" THEN b ELSE a
\* String.prototype.trim
trim(text) == StripEnds(text, {" "})

(***************************************************************************)
(* The platform's Date, for the date strings of the model.  Instants are   *)
(* milliseconds since the epoch.                                           *)
(***************************************************************************)
\* Date.prototype.toISOString
toISOString(ms) ==
  CASE ms = 0 -> <<"1970-01-01T00:00:00.000Z">>
    [] ms = 86400000 -> <<"1970-01-02T00:00:00.000Z">>
    [] ms = 129600000 -> <<"1970-01-02T12:00:00.000Z">>
    [] ms = 172800000 -> <<"1970-01-03T00:00:00.000Z">>

\* new Date(text).getTime(); -1 stands for NaN (an invalid date)
DateParse(text) ==
  CASE text = <<"1970-01-01T00:00:00.000Z">> -> 0
    [] text = <<"1970-01-02T00:00:00.000Z">> -> 86400000
    [] text = <<"1970-01-02T00:00:00Z">> -> 86400000
    [] text = <<"1970-01-02T12:00:00Z">> -> 129600000
    [] text = <<"1970-01-02T12:00:00.000Z">> -> 129600000
    [] text = <<"1970-01-03T00:00:00.000Z">> -> 172800000
    [] OTHER -> -1

TWEET_LOOKBACK_MS == 24 * 60 * 60 * 1000

(***************************************************************************)
(* Raw social items (ApifyTweetItem) and stories (Story).                  *)
(***************************************************************************)
Item(type, text, full_text, url, twitterUrl, id, createdAt, created_at, date) ==
  [nil |-> FALSE, type |-> type, text |-> text, full_text |-> full_text,
   url |-> url, twitterUrl |-> twitterUrl, id |-> id,
   createdAt |-> createdAt, created_at |-> created_at, date |-> date]

\* a null element of the item list
NullItem ==
  [nil |-> TRUE, type |-> Undef, text |-> Undef, full_text |-> Undef,
   url |-> Undef, twitterUrl |-> Undef, id |-> Undef,
   createdAt |-> Undef, created_at |-> Undef, date |-> Undef]

Story(headline, link, date_posted) ==
  [headline |-> headline, link |-> link, date_posted |-> date_posted]

StatusPrefix == <<"https://x.com/i/status/">>
TweetType == <<"tweet">>

\* MapSet with first-write-wins: a key already present keeps its value
MapSetKeepFirst(deduped, link, story) ==
  IF \E i \in 1..Len(deduped) : deduped[i].link = link
  THEN deduped
  ELSE Append(deduped, story)

\* MapSet on a plain list: every value is appended
MapSetAppend(deduped, link, story) == Append(deduped, story)

\* Map.prototype.set on an insertion-ordered map keyed by link: an existing
\* key keeps its position and takes the new value
MapSet(deduped, link, story) ==
  IF \E i \in 1..Len(deduped) : deduped[i].link = link
  THEN [i \in 1..Len(deduped) |->
          IF deduped[i].link = link THEN story ELSE deduped[i]]
  ELSE Append(deduped, story)

\* item.type && item.type !== "tweet"
WrongType(item) == TruthyV(item.type) /\ item.type.v # TweetType

\* (item.text ?? item.full_text ?? "").trim()
HeadlineOf(item) ==
  trim(Coalesce(Coalesce(item.text, item.full_text), S(<<>>)).v)

\* LinkOf without the trim: the first candidate that is a non-empty string
LinkOfNoTrim(item) ==
  IF TruthyV(item.url) THEN item.url.v
  ELSE IF TruthyV(item.twitterUrl) THEN item.twitterUrl.v
  ELSE IF TruthyV(item.id) THEN StatusPrefix \o item.id.v
  ELSE <<>>

\* candidateLinks.map(trim-or-"").find(non-empty); <<>> stands for undefined
LinkOf(item) ==
  LET candidateLinks ==
        <<item.url, item.twitterUrl,
          IF TruthyV(item.id) THEN S(StatusPrefix \o item.id.v) ELSE Undef>>
      trimmed ==
        [i \in 1..3 |->
           IF candidateLinks[i].k = "str"
           THEN trim(candidateLinks[i].v)
           ELSE <<>>]
      found == FirstIndex(trimmed, {x \in {trimmed[i] : i \in 1..3} : Len(x) > 0})
  IN  IF found > 3 THEN <<>> ELSE trimmed[found]

\* the parsedDateIso of one item
DateOf(item, fallbackDateIso) ==
  LET rawDate ==
        Coalesce(Coalesce(Coalesce(item.createdAt, item.created_at), item.date),
                 Undef)
  IN  IF TruthyV(rawDate) /\ DateParse(rawDate.v) # -1
      THEN toISOString(DateParse(rawDate.v))
      ELSE fallbackDateIso

\* one iteration of the loop of mapApifyItemsToStories
MapStep(deduped, item, fallbackDateIso) ==
  IF item.nil \/ WrongType(item)
  THEN deduped
  ELSE IF HeadlineOf(item) = <<>>
  THEN deduped
  ELSE IF LinkOf(item) = <<>>
  THEN deduped
  ELSE MapSet(deduped, LinkOf(item),
              Story(HeadlineOf(item), LinkOf(item),
                    DateOf(item, fallbackDateIso)))

RECURSIVE MapLoop(_, _, _)
MapLoop(deduped, items, fallbackDateIso) ==
  IF items = <<>>
  THEN deduped
  ELSE MapLoop(MapStep(deduped, Head(items), fallbackDateIso),
               Tail(items), fallbackDateIso)

mapApifyItemsToStories(items, fallbackDateIso) ==
  MapLoop(<<>>, items, fallbackDateIso)

(***************************************************************************)
(* The raw items and the backend responses of the model.                   *)
(***************************************************************************)
U1 == <<"https://x.com/openai/status/1">>
U2 == <<"https://x.com/openai/status/2">>
DateA == <<"1970-01-02T00:00:00Z">>
DateB == <<"1970-01-02T12:00:00.000Z">>

\* {type: "tweet", text: "hi", url: U1, id: "1", createdAt: DateA}
ItemHi ==
  Item(S(TweetType), S(<<"hi">>), Undef, S(U1), Undef, S(<<"1">>),
       S(DateA), Undef, Undef)
\* {text: " again ", url: " U1 ", created_at: DateB}: ItemHi's link
ItemAgain ==
  Item(Undef, S(<<" ", "again", " ">>), Undef, S(<<" ">> \o U1 \o <<" ">>),
       Undef, Undef, Undef, S(DateB), Undef)
\* {full_text: "ft", twitterUrl: U2, id: "2", date: "soon"}: an unparsable date
ItemFullText ==
  Item(Undef, Undef, S(<<"ft">>), Undef, S(U2), S(<<"2">>),
       Undef, Undef, S(<<"soon">>))
\* {text: "synth", id: "1", createdAt: "", created_at: DateB}: link from the id
ItemIdOnly ==
  Item(Undef, S(<<"synth">>), Undef, Undef, Undef, S(<<"1">>),
       S(<<>>), S(DateB), Undef)
\* {text: "nolink", url: " ", twitterUrl: ""}: no derivable link
ItemNoLink ==
  Item(Undef, S(<<"nolink">>), Undef, S(<<" ">>), S(<<>>), Undef,
       S(DateA), Undef, Undef)
\* {type: "retweet", text: "rt", url: U2}
ItemRetweet ==
  Item(S(<<"retweet">>), S(<<"rt">>), Undef, S(U2), Undef, S(<<"2">>),
       Undef, Undef, Undef)
\* {text: " ", full_text: "unused", url: U1}: a blank headline
ItemBlankText ==
  Item(Undef, S(<<" ">>), S(<<"unused">>), S(U1), Undef, Undef,
       Undef, Undef, Undef)
\* {type: "tweet", text: "second", url: "", twitterUrl: "U1 ", id: "2",
\*  createdAt: "soon"}: an unparsable date
ItemTwitterUrl ==
  Item(S(TweetType), S(<<"second">>), Undef, S(<<>>), S(U1 \o <<" ">>),
       S(<<"2">>), S(<<"soon">>), Undef, Undef)
\* {text: "explicit", url: "https://x.com/i/status/1"}: ItemIdOnly's link
ItemExplicitStatus ==
  Item(Undef, S(<<"explicit">>), Undef, S(StatusPrefix \o <<"1">>), Undef,
       Undef, Undef, Undef, S(DateA))

RawItems ==
  {ItemHi, ItemAgain, ItemFullText, ItemIdOnly, ItemNoLink, ItemRetweet,
   ItemBlankText, ItemTwitterUrl, ItemExplicitStatus, NullItem}

\* a JSON value that should be a list: absent, an array, or something else
NoList == [k |-> "undef", v |-> <<>>]
List(items) == [k |-> "array", v |-> items]
NotAList == [k |-> "other", v |-> <<>>]

\* What one call of the social backend brings: fetch rejects ("reject"), a
\* non-success HTTP status ("notok"), a body that is an array ("array", in
\* items) or an object ("object", with its items and data fields).
SocialResponse(kind, items, data) ==
  [kind |-> kind, items |-> items, data |-> data]

SocialResponses ==
  {SocialResponse("reject", NoList, NoList),
   SocialResponse("notok", NoList, NoList),
   SocialResponse("array", List(<<ItemHi, ItemAgain>>), NoList),
   SocialResponse("array", List(<<ItemTwitterUrl>>), NoList),
   SocialResponse("object", List(<<ItemHi, ItemFullText, ItemIdOnly>>), NoList),
   SocialResponse("object", NoList, NotAList)}

\* generic stories, as the extraction backend returns them
StoryG1 == Story(<<"g1">>, <<"https://example.com/a">>, <<"1970-01-03">>)
StoryG2 == Story(<<"g2">>, <<"https://example.com/b">>, <<"1970-01-03">>)
StoryG1Again == Story(<<"g1 again">>, <<"https://example.com/a">>, <<"1970-01-03">>)

\* What one call of app.extract brings: it throws ("throw", statusCode 0 when
\* the error carries none), or returns {success, data} with data.stories a
\* list or absent.
ScrapeResult(kind, statusCode, success, stories) ==
  [kind |-> kind, statusCode |-> statusCode, success |-> success,
   stories |-> stories]

ScrapeResults ==
  {ScrapeResult("throw", 0, FALSE, NoList),
   ScrapeResult("throw", 429, FALSE, NoList),
   ScrapeResult("return", 0, FALSE, NoList),
   ScrapeResult("return", 0, TRUE, NoList),
   ScrapeResult("return", 0, TRUE, List(<<StoryG1, StoryG2, StoryG1Again>>))}

(***************************************************************************)
(* fetchTweetsFromApify.                                                   *)
(***************************************************************************)
\* APIFY_TWITTER_MAX_ITEMS as configured for the model (1..100 in the code)
apifyMaxItems == 3
\* the clock reading of new Date()
NowMs == 172800000

\* stories.slice(0, n)
slice0(xs, n) == SubSeq(xs, 1, IF n < Len(xs) THEN n ELSE Len(xs))

\* the result of one call: threw = TRUE for a rejected promise
fetchTweetsFromApify(hasEndpoint, response) ==
  LET lookbackStart == NowMs - TWEET_LOOKBACK_MS
      items ==
        IF response.kind = "array"
        THEN response.items
        ELSE IF response.items.k # "undef" THEN response.items
        ELSE IF response.data.k # "undef" THEN response.data
        ELSE List(<<>>)
  IN  IF ~hasEndpoint
      THEN [threw |-> FALSE, stories |-> <<>>]
      ELSE IF response.kind \in {"reject", "notok"}
      THEN [threw |-> TRUE, stories |-> <<>>]
      ELSE IF items.k # "array"
      THEN [threw |-> FALSE, stories |-> <<>>]
      ELSE [threw |-> FALSE,
            stories |->
              slice0(mapApifyItemsToStories(items.v, toISOString(lookbackStart)),
                     apifyMaxItems)]

(***************************************************************************)
(* State.                                                                  *)
(***************************************************************************)
VARIABLES
  variant,      \* which file runs: "current" (scrapeSources.ts) or "legacy"
  phase,        \* "scrape": a run of scrapeSources; "map": see MapSpec
  sources,      \* the identifiers of the source list, in order
  useTwitter,   \* hasApifyCredentials (legacy: Boolean(apifyToken))
  pc,           \* "loop", "awaitSocial", "awaitGeneric", "done", "thrown"
  idx,          \* position of the for..of loop in sources (1-based)
  stories,      \* combinedText.stories
  sawTwitterSource,
  processedTwitterUsernames,
  calls,        \* history: the backend calls issued, in order
  responses,    \* history: what each finished call brought, in order
  log,          \* history: the console lines written, in order
  visited,      \* history: the list positions the loop has taken, in order
  returned,     \* the list the promise resolved with (once pc = "done")
  mapItems,     \* MapSpec: the raw items given to mapApifyItemsToStories
  mapFallback,  \* MapSpec: its fallbackDateIso
  mapResult     \* MapSpec: its result once applied

vars ==
  <<variant, phase, sources, useTwitter, pc, idx, stories, sawTwitterSource,
    processedTwitterUsernames, calls, responses, log, visited, returned,
    mapItems, mapFallback, mapResult>>

mapVars == <<mapItems, mapFallback, mapResult>>

SeqsUpTo(set, n) == UNION {[1..k -> set] : k \in 0..n}

Call(backend, entry, arg) == [backend |-> backend, entry |-> entry, arg |-> arg]
Line(kind, entry) == [kind |-> kind, entry |-> entry]

\* the state at the entry of scrapeSources(sources)
ScrapeInit(v) ==
  /\ variant = v
  /\ phase = "scrape"
  /\ sources \in SeqsUpTo(SourceStrings, MaxSources)
  /\ useTwitter \in BOOLEAN
  /\ pc = "loop"
  /\ idx = 1
  /\ stories = <<>>
  /\ sawTwitterSource = FALSE
  /\ processedTwitterUsernames = {}
  /\ calls = <<>>
  /\ responses = <<>>
  /\ log = <<>>
  /\ visited = <<>>
  /\ returned = <<>>
  /\ mapItems = <<>>
  /\ mapFallback = <<>>
  /\ mapResult = <<>>

Init == ScrapeInit("current")

(***************************************************************************)
(* scrapeSources, current variant: one action per path through the loop    *)
(* body up to its await, one per resumption after an await, one for the    *)
(* code after the loop.                                                    *)
(***************************************************************************)
AtLoop ==
  /\ variant = "current"
  /\ phase = "scrape"
  /\ pc = "loop"
  /\ idx <= Len(sources)

\* extractTwitterUsername on the strings of the model, evaluated once
usernameOf == [s \in SourceStrings |-> extractTwitterUsername(s)]

\* const username = extractTwitterUsername(source)
username == usernameOf[sources[idx]]

\* lines 203-206, common to every path through the loop body
Classified ==
  /\ sawTwitterSource' = (sawTwitterSource \/ Truthy(username))
  /\ visited' = Append(visited, idx)

\* AlreadyProcessed looking the username up as written, case included
AlreadyProcessedCaseSensitive(name) == name \in processedTwitterUsernames

\* processedTwitterUsernames.has(normalizedUsername)
AlreadyProcessed(name) == toLowerCase(name) \in processedTwitterUsernames

\* lines 207-211: a username already processed in this run
LoopSkipDuplicate ==
  /\ AtLoop
  /\ useTwitter /\ Truthy(username)
  /\ AlreadyProcessed(username.v)
  /\ Classified
  /\ idx' = idx + 1
  /\ UNCHANGED <<variant, phase, sources, useTwitter, pc, stories,
                 processedTwitterUsernames, calls, responses, log, returned,
                 mapVars>>

\* lines 207-215: the social backend is called
LoopCallSocial ==
  /\ AtLoop
  /\ useTwitter /\ Truthy(username)
  /\ ~AlreadyProcessed(username.v)
  /\ Classified
  /\ processedTwitterUsernames' =
       processedTwitterUsernames \cup {toLowerCase(username.v)}
  /\ calls' = Append(calls, Call("social", idx, username.v))
  /\ pc' = "awaitSocial"
  /\ UNCHANGED <<variant, phase, sources, useTwitter, idx, stories, responses,
                 log, returned, mapVars>>

\* lines 214-225, try/catch around the social call: what is pushed, what
\* is logged, and whether an exception leaves the try statement
SocialTry(result, entry) ==
  IF result.threw
  THEN [push |-> <<>>, line |-> Line("errorTweets", entry), escapes |-> FALSE]
  ELSE IF Len(result.stories) = 0
  THEN [push |-> <<>>, line |-> Line("noTweets", entry), escapes |-> FALSE]
  ELSE [push |-> result.stories, line |-> Line("tweetsFound", entry),
        escapes |-> FALSE]

\* Push at the front of the accumulator (unshift)
PushFront(acc, more) == more \o acc

\* combinedText.stories.push(...more)
Push(acc, more) == acc \o more

\* fetchTweetsFromApify on the responses of the model, evaluated once
fetched ==
  [hasEndpoint \in BOOLEAN, r \in SocialResponses |->
     fetchTweetsFromApify(hasEndpoint, r)]

\* lines 215-226: the social call settles
SocialReturns ==
  /\ variant = "current" /\ phase = "scrape" /\ pc = "awaitSocial"
  /\ \E response \in SocialResponses :
       LET try == SocialTry(fetched[useTwitter, response], idx)
       IN  /\ responses' = Append(responses, [entry |-> idx, backend |-> "social",
                                              social |-> response])
           /\ stories' = Push(stories, try.push)
           /\ log' = Append(log, try.line)
           /\ pc' = IF try.escapes THEN "thrown" ELSE "loop"
           /\ idx' = IF try.escapes THEN idx ELSE idx + 1
  /\ UNCHANGED <<variant, sources, useTwitter, sawTwitterSource, phase,
                 processedTwitterUsernames, calls, visited, returned, mapVars>>

\* lines 229-234: a social source without credentials
LoopSkipUnconfigured ==
  /\ AtLoop
  /\ ~(useTwitter /\ Truthy(username))
  /\ Truthy(username) /\ ~useTwitter
  /\ Classified
  /\ log' = Append(log, Line("skipX", idx))
  /\ idx' = idx + 1
  /\ UNCHANGED <<variant, phase, sources, useTwitter, pc, stories,
                 processedTwitterUsernames, calls, responses, returned, mapVars>>

\* const useScrape = true
useScrape == TRUE

\* lines 236-261: the generic backend is called
LoopCallGeneric ==
  /\ AtLoop
  /\ ~(useTwitter /\ Truthy(username))
  /\ ~(Truthy(username) /\ ~useTwitter)
  /\ useScrape
  /\ Classified
  /\ calls' = Append(calls, Call("generic", idx, sources[idx]))
  /\ pc' = "awaitGeneric"
  /\ UNCHANGED <<variant, phase, sources, useTwitter, idx, stories,
                 processedTwitterUsernames, responses, log, returned, mapVars>>

\* ScrapeTry without its catch clause: a failure leaves the loop
ScrapeTryNoCatch(result, entry) ==
  IF result.kind = "throw" \/ ~result.success
  THEN [push |-> <<>>, line |-> Line("errorScrape", entry), escapes |-> TRUE]
  ELSE IF result.stories.k # "array"
  THEN [push |-> <<>>, line |-> Line("noStoriesKey", entry), escapes |-> FALSE]
  ELSE [push |-> result.stories.v, line |-> Line("found", entry),
        escapes |-> FALSE]

\* lines 260-285, try/catch around app.extract
ScrapeTry(result, entry) ==
  IF result.kind = "throw" \/ ~result.success
  THEN \* catch (error): success = false throws an Error without statusCode
       IF result.kind = "throw" /\ result.statusCode = 429
       THEN [push |-> <<>>, line |-> Line("rateLimit", entry), escapes |-> FALSE]
       ELSE [push |-> <<>>, line |-> Line("errorScrape", entry), escapes |-> FALSE]
  ELSE IF result.stories.k # "array"
  THEN [push |-> <<>>, line |-> Line("noStoriesKey", entry), escapes |-> FALSE]
  ELSE [push |-> result.stories.v, line |-> Line("found", entry),
        escapes |-> FALSE]

\* GenericReturns with a retry: after a failure the loop takes the same
\* entry again
GenericReturnsRetry ==
  /\ variant = "current" /\ phase = "scrape" /\ pc = "awaitGeneric"
  /\ \E result \in ScrapeResults :
       LET try == ScrapeTry(result, idx)
           failed == result.kind = "throw" \/ ~result.success
       IN  /\ responses' = Append(responses, [entry |-> idx, backend |-> "generic",
                                              generic |-> result])
           /\ stories' = Push(stories, try.push)
           /\ log' = Append(log, try.line)
           /\ pc' = "loop"
           /\ idx' = IF failed /\ Len(visited) <= Len(sources) THEN idx ELSE idx + 1
  /\ UNCHANGED <<variant, sources, useTwitter, sawTwitterSource, phase,
                 processedTwitterUsernames, calls, visited, returned, mapVars>>

\* lines 261-285: app.extract settles
GenericReturns ==
  /\ variant = "current" /\ phase = "scrape" /\ pc = "awaitGeneric"
  /\ \E result \in ScrapeResults :
       LET try == ScrapeTry(result, idx)
       IN  /\ responses' = Append(responses, [entry |-> idx, backend |-> "generic",
                                              generic |-> result])
           /\ stories' = Push(stories, try.push)
           /\ log' = Append(log, try.line)
           /\ pc' = IF try.escapes THEN "thrown" ELSE "loop"
           /\ idx' = IF try.escapes THEN idx ELSE idx + 1
  /\ UNCHANGED <<variant, sources, useTwitter, sawTwitterSource, phase,
                 processedTwitterUsernames, calls, visited, returned, mapVars>>

\* SummaryLines without its condition
SummaryLinesAlways == <<Line("summary", 0)>>

\* lines 288-292: the summary notice
SummaryLines == 
  IF ~useTwitter /\ sawTwitterSource THEN <<Line("summary", 0)>> ELSE <<>>

\* lines 288-295: after the loop
LoopExit ==
  /\ variant = "current" /\ phase = "scrape" /\ pc = "loop"
  /\ idx > Len(sources)
  /\ log' = log \o SummaryLines \o <<Line("combined", 0)>>
  /\ returned' = stories
  /\ pc' = "done"
  /\ UNCHANGED <<variant, phase, sources, useTwitter, idx, stories,
                 sawTwitterSource, processedTwitterUsernames, calls, responses,
                 visited, mapVars>>

Next ==
  \/ LoopSkipDuplicate
  \/ LoopCallSocial
  \/ SocialReturns
  \/ LoopSkipUnconfigured
  \/ LoopCallGeneric
  \/ GenericReturns
  \/ LoopExit

Spec == Init /\ [][Next]_vars

(***************************************************************************)
(* scrapeSources, legacy variant (src/unnamed/part_000).                   *)
(***************************************************************************)
\* source.includes(p)
includes(s, p) ==
  \E i \in 1..(Len(s) - Len(p) + 1) : SubSeq(s, i, i + Len(p) - 1) = p

\* source.match(/x\.com\/([^\/]+)/): the capture of the leftmost match,
\* Null when there is none
LegacyUsernameMatch(source) ==
  LET lit == XDomain \o <<"/">>
      hits == {i \in 1..Len(source) :
                 /\ i + Len(lit) <= Len(source)
                 /\ SubSeq(source, i, i + Len(lit) - 1) = lit
                 /\ source[i + Len(lit)] # "/"}
      at == CHOOSE i \in hits : \A j \in hits : i <= j
      tail == Drop(source, at + Len(lit))
  IN  IF hits = {}
      THEN Null
      ELSE Str(SubSeq(tail, 1, FirstIndex(tail, {"/"}) - 1))

\* tweet?.type === "tweet" && tweet?.id
LegacyKeeps(tweet) ==
  ~tweet.nil /\ tweet.type = S(TweetType) /\ TruthyV(tweet.id)

\* new Date(tweet.createdAt).toISOString() throws a RangeError
LegacyDateThrows(tweet) ==
  TruthyV(tweet.createdAt) /\ DateParse(tweet.createdAt.v) = -1

\* the Story the legacy map callback builds from one kept tweet
LegacyStory(tweet) ==
  Story(Coalesce(tweet.text, S(<<>>)).v,
        Coalesce(tweet.url, S(StatusPrefix \o tweet.id.v)).v,
        IF TruthyV(tweet.createdAt)
        THEN toISOString(DateParse(tweet.createdAt.v))
        ELSE toISOString(NowMs - TWEET_LOOKBACK_MS))

\* lines 76-124, try/catch around the legacy social call
LegacySocialTry(response, entry) ==
  LET tweetItems ==
        IF response.kind = "array" THEN response.items.v
        ELSE IF response.items.k = "array" THEN response.items.v
        ELSE <<>>
      kept == SelectSeq(tweetItems, LegacyKeeps)
      usable ==
        SelectSeq([i \in 1..Len(kept) |-> LegacyStory(kept[i])],
                  LAMBDA story : story.headline # <<>> /\ story.link # <<>>)
  IN  IF response.kind \in {"reject", "notok"}
      THEN [push |-> <<>>, line |-> Line("errorTweets", entry), escapes |-> FALSE]
      ELSE IF Len(tweetItems) = 0
      THEN [push |-> <<>>, line |-> Line("noTweets", entry), escapes |-> FALSE]
      ELSE IF \E i \in 1..Len(kept) : LegacyDateThrows(kept[i])
      THEN [push |-> <<>>, line |-> Line("errorTweets", entry), escapes |-> FALSE]
      ELSE IF Len(usable) > 0
      THEN [push |-> usable, line |-> Line("tweetsFound", entry), escapes |-> FALSE]
      ELSE [push |-> <<>>, line |-> Line("noUsableTweets", entry),
            escapes |-> FALSE]

LegacyAtLoop ==
  /\ variant = "legacy"
  /\ phase = "scrape"
  /\ pc = "loop"
  /\ idx <= Len(sources)

\* what no step of the legacy loop changes
legacyFixed ==
  <<variant, phase, sources, useTwitter, sawTwitterSource,
    processedTwitterUsernames, mapVars>>

\* lines 54-55 with useTwitter false: nothing happens for an x.com source
LegacySkipX ==
  /\ LegacyAtLoop
  /\ includes(sources[idx], XDomain)
  /\ ~useTwitter
  /\ visited' = Append(visited, idx)
  /\ idx' = idx + 1
  /\ UNCHANGED <<pc, stories, calls, responses, log>>
  /\ UNCHANGED <<legacyFixed, returned>>

\* lines 56-57: if (!usernameMatch) continue
LegacyNoMatch ==
  /\ LegacyAtLoop
  /\ includes(sources[idx], XDomain)
  /\ useTwitter
  /\ LegacyUsernameMatch(sources[idx]).isNull
  /\ visited' = Append(visited, idx)
  /\ idx' = idx + 1
  /\ UNCHANGED <<pc, stories, calls, responses, log>>
  /\ UNCHANGED <<legacyFixed, returned>>

\* lines 58-83: the social backend is called
LegacyCallSocial ==
  /\ LegacyAtLoop
  /\ includes(sources[idx], XDomain)
  /\ useTwitter
  /\ ~LegacyUsernameMatch(sources[idx]).isNull
  /\ visited' = Append(visited, idx)
  /\ calls' = Append(calls, Call("social", idx, LegacyUsernameMatch(sources[idx]).v))
  /\ pc' = "awaitSocial"
  /\ UNCHANGED <<idx, stories, responses, log>>
  /\ UNCHANGED <<legacyFixed, returned>>

\* lines 77-124: the social call settles
LegacySocialReturns ==
  /\ variant = "legacy" /\ phase = "scrape" /\ pc = "awaitSocial"
  /\ \E response \in SocialResponses :
       LET try == LegacySocialTry(response, idx)
       IN  /\ responses' = Append(responses, [entry |-> idx, backend |-> "social",
                                              social |-> response])
           /\ stories' = Push(stories, try.push)
           /\ log' = Append(log, try.line)
           /\ pc' = IF try.escapes THEN "thrown" ELSE "loop"
           /\ idx' = IF try.escapes THEN idx ELSE idx + 1
  /\ UNCHANGED <<calls, visited>>
  /\ UNCHANGED <<legacyFixed, returned>>

\* lines 128-154: the generic backend is called
LegacyCallGeneric ==
  /\ LegacyAtLoop
  /\ ~includes(sources[idx], XDomain)
  /\ useScrape
  /\ visited' = Append(visited, idx)
  /\ calls' = Append(calls, Call("generic", idx, sources[idx]))
  /\ pc' = "awaitGeneric"
  /\ UNCHANGED <<idx, stories, responses, log>>
  /\ UNCHANGED <<legacyFixed, returned>>

\* lines 150-179: app.extract settles (the same try/catch as the current one)
LegacyGenericReturns ==
  /\ variant = "legacy" /\ phase = "scrape" /\ pc = "awaitGeneric"
  /\ \E result \in ScrapeResults :
       LET try == ScrapeTry(result, idx)
       IN  /\ responses' = Append(responses, [entry |-> idx, backend |-> "generic",
                                              generic |-> result])
           /\ stories' = Push(stories, try.push)
           /\ log' = Append(log, try.line)
           /\ pc' = IF try.escapes THEN "thrown" ELSE "loop"
           /\ idx' = IF try.escapes THEN idx ELSE idx + 1
  /\ UNCHANGED <<calls, visited>>
  /\ UNCHANGED <<legacyFixed, returned>>

\* lines 184-185: after the loop
LegacyExit ==
  /\ variant = "legacy" /\ phase = "scrape" /\ pc = "loop"
  /\ idx > Len(sources)
  /\ log' = Append(log, Line("combined", 0))
  /\ returned' = stories
  /\ pc' = "done"
  /\ UNCHANGED <<idx, stories, calls, responses, visited>>
  /\ UNCHANGED legacyFixed

LegacyNext ==
  \/ LegacySkipX
  \/ LegacyNoMatch
  \/ LegacyCallSocial
  \/ LegacySocialReturns
  \/ LegacyCallGeneric
  \/ LegacyGenericReturns
  \/ LegacyExit

\* both variants of the aggregator
VariantsInit == ScrapeInit("current") \/ ScrapeInit("legacy")
VariantsNext == Next \/ LegacyNext
VariantsSpec == VariantsInit /\ [][VariantsNext]_vars

(***************************************************************************)
(* mapApifyItemsToStories on its own: the raw items and the fallback date  *)
(* are drawn at the start, one action applies the function.                *)
(***************************************************************************)
MapInit ==
  /\ variant = "current"
  /\ phase = "map"
  /\ pc = "mapCall"
  /\ mapItems \in SeqsUpTo(RawItems, MaxItems)
  /\ mapFallback \in {toISOString(0), toISOString(NowMs - TWEET_LOOKBACK_MS)}
  /\ mapResult = <<>>
  /\ sources = <<>>
  /\ useTwitter = TRUE
  /\ idx = 1
  /\ stories = <<>>
  /\ sawTwitterSource = FALSE
  /\ processedTwitterUsernames = {}
  /\ calls = <<>>
  /\ responses = <<>>
  /\ log = <<>>
  /\ visited = <<>>
  /\ returned = <<>>

MapApply ==
  /\ phase = "map" /\ pc = "mapCall"
  /\ mapResult' = mapApifyItemsToStories(mapItems, mapFallback)
  /\ pc' = "mapDone"
  /\ UNCHANGED <<variant, phase, sources, useTwitter, idx, stories,
                 sawTwitterSource, processedTwitterUsernames, calls, responses,
                 log, visited, returned, mapItems, mapFallback>>

MapNext == MapApply

MapSpec == MapInit /\ [][MapNext]_vars

(***************************************************************************)
(* Properties.                                                             *)
(***************************************************************************)
\* the positions of calls that are calls of `backend` for list entry e
CallsOf(backend, e) ==
  {k \in 1..Len(calls) : calls[k].backend = backend /\ calls[k].entry = e}

\* the number of console lines of one kind
CountLines(kind) == Cardinality({k \in 1..Len(log) : log[k].kind = kind})

\* no two stories of xs have the same link
NoSharedLink(xs) ==
  \A i, j \in 1..Len(xs) : xs[i].link = xs[j].link => i = j

\* a finished call that failed
FailedResponse(r) ==
  IF r.backend = "social"
  THEN r.social.kind \in {"reject", "notok"}
  ELSE r.generic.kind = "throw" \/ ~r.generic.success

\* C1: for every source list and every combination of backend outcomes, in
\* either variant of the aggregator, no exception leaves scrapeSources: the
\* run is never in the state "thrown", it can always take a further step
\* until it has returned, and what it returns is the accumulated list.
C1_ReturnsNeverThrows ==
  /\ pc # "thrown"
  /\ pc # "done" => ENABLED VariantsNext
  /\ pc = "done" => returned = stories

\* a run in which every backend call failed (a non-success HTTP status, then
\* a thrown 429) has returned the empty list
C1_AllCallsFailedReturned ==
  /\ pc = "done"
  /\ Len(responses) = 2
  /\ responses[1].backend = "social"
  /\ responses[1].social.kind = "notok"
  /\ responses[2].backend = "generic"
  /\ responses[2].generic.kind = "throw"
  /\ responses[2].generic.statusCode = 429
  /\ returned = <<>>

\* C2 (as stated): no two stories of the list scrapeSources returns share a
\* link.
C2_ReturnedLinksDistinct == pc = "done" => NoSharedLink(returned)

\* C2 (amended): the stories one call of the social backend adds to the
\* accumulator have pairwise distinct links.
C2_SocialBatchLinksDistinct ==
  [][pc = "awaitSocial" => NoSharedLink(Drop(stories', Len(stories) + 1))]_vars

\* a social call that brought two raw items with one link has added one story
C2_DuplicateRawLinksPushed ==
  /\ Len(responses) = 1
  /\ responses[1].backend = "social"
  /\ responses[1].social.kind = "array"
  /\ responses[1].social.items = List(<<ItemHi, ItemAgain>>)
  /\ Len(stories) = 1

\* C3: with the social backend configured, the social backend is called at
\* most once for each username compared without letter case, whatever the
\* first call brought.
C3_OneSocialCallPerUsername ==
  useTwitter =>
    \A k1, k2 \in 1..Len(calls) :
      /\ calls[k1].backend = "social"
      /\ calls[k2].backend = "social"
      /\ toLowerCase(calls[k1].arg) = toLowerCase(calls[k2].arg)
      => k1 = k2

\* two entries with one username in different letter case: the first call
\* failed, the second entry was skipped and not retried
C3_DuplicateSkippedAfterFailure ==
  /\ useTwitter
  /\ pc = "done"
  /\ Len(sources) = 2
  /\ Truthy(usernameOf[sources[1]])
  /\ Truthy(usernameOf[sources[2]])
  /\ usernameOf[sources[1]].v # usernameOf[sources[2]].v
  /\ toLowerCase(usernameOf[sources[1]].v) = toLowerCase(usernameOf[sources[2]].v)
  /\ Len(calls) = 1
  /\ responses[1].social.kind = "reject"

\* the raw item passes the filters of mapApifyItemsToStories
Passes(item) ==
  /\ ~item.nil
  /\ ~WrongType(item)
  /\ HeadlineOf(item) # <<>>
  /\ LinkOf(item) # <<>>

\* the last position of mapItems whose item passes with the link of item i
LastWithLinkOf(i) ==
  CHOOSE j \in 1..Len(mapItems) :
    /\ Passes(mapItems[j])
    /\ LinkOf(mapItems[j]) = LinkOf(mapItems[i])
    /\ \A k \in (j + 1)..Len(mapItems) :
         ~(Passes(mapItems[k]) /\ LinkOf(mapItems[k]) = LinkOf(mapItems[i]))

\* C4: for every link computed by an item that passes the filters, the
\* result of mapApifyItemsToStories holds exactly one Story with that link,
\* and its headline and date_posted are those of the last such item.
C4_LastDuplicateWins ==
  pc = "mapDone" =>
    \A i \in 1..Len(mapItems) :
      Passes(mapItems[i]) =>
        LET last == mapItems[LastWithLinkOf(i)]
            hits == {k \in 1..Len(mapResult) :
                       mapResult[k].link = LinkOf(mapItems[i])}
        IN  /\ Cardinality(hits) = 1
            /\ \A k \in hits :
                 /\ mapResult[k].headline = HeadlineOf(last)
                 /\ mapResult[k].date_posted = DateOf(last, mapFallback)

\* the function was applied to a list in which two passing items with
\* different headlines compute one link
C4_TwoItemsOneLink ==
  /\ pc = "mapDone"
  /\ \E i, j \in 1..Len(mapItems) :
       /\ i < j
       /\ Passes(mapItems[i]) /\ Passes(mapItems[j])
       /\ LinkOf(mapItems[i]) = LinkOf(mapItems[j])
       /\ HeadlineOf(mapItems[i]) # HeadlineOf(mapItems[j])
       /\ DateOf(mapItems[i], mapFallback) # DateOf(mapItems[j], mapFallback)

\* the field is a string with a character that is not whitespace
NonBlank(x) == x.k = "str" /\ trim(x.v) # <<>>

\* the link the claim expects of a raw item, <<>> when none can be derived
ExpectedLink(item) ==
  IF NonBlank(item.url) THEN trim(item.url.v)
  ELSE IF NonBlank(item.twitterUrl) THEN trim(item.twitterUrl.v)
  ELSE IF TruthyV(item.id) THEN trim(StatusPrefix \o item.id.v)
  ELSE <<>>

\* C8: every Story of the result of mapApifyItemsToStories has a non-empty
\* link and comes from a raw item whose expected link (url if non-blank,
\* else twitterUrl if non-blank, else the link built from the id; surrounding
\* whitespace removed) is that link; items with no derivable link account
\* for no Story.
C8_LinkPreference ==
  pc = "mapDone" =>
    /\ \A k \in 1..Len(mapResult) :
         /\ mapResult[k].link # <<>>
         /\ \E i \in 1..Len(mapItems) :
              /\ ~mapItems[i].nil
              /\ ExpectedLink(mapItems[i]) = mapResult[k].link
              /\ HeadlineOf(mapItems[i]) = mapResult[k].headline
    /\ Len(mapResult) <=
         Cardinality({i \in 1..Len(mapItems) :
                        ~mapItems[i].nil /\ ExpectedLink(mapItems[i]) # <<>>})

\* the function was applied to an item without derivable link, an item whose
\* link comes from twitterUrl and an item whose link comes from its id
C8_NoLinkItemDropped ==
  /\ pc = "mapDone"
  /\ mapItems = <<ItemNoLink, ItemTwitterUrl, ItemIdOnly>>
  /\ Len(mapResult) = 2
  /\ mapResult[1].link = U1
  /\ mapResult[2].link = StatusPrefix \o <<"1">>

\* C5: without social credentials, a source classified social causes no
\* backend call, every generic source taken by the loop is handed to the
\* generic backend once, and the summary notice is written once, after the
\* loop, exactly when some source was classified social.
C5_UnconfiguredSocialSkipped ==
  ~useTwitter =>
    /\ \A k \in 1..Len(calls) :
         /\ calls[k].backend = "generic"
         /\ ~Truthy(usernameOf[sources[calls[k].entry]])
    /\ \A i \in 1..Len(visited) :
         ~Truthy(usernameOf[sources[visited[i]]]) =>
           Cardinality(CallsOf("generic", visited[i])) = 1
    /\ CountLines("summary") =
         IF pc = "done" /\ \E i \in 1..Len(sources) : Truthy(usernameOf[sources[i]])
         THEN 1
         ELSE 0
    /\ \A k \in 1..Len(log) :
         log[k].kind = "summary" =>
           /\ pc = "done"
           /\ \A j \in (k + 1)..Len(log) : log[j].kind = "combined"

\* the scenario of the specification: a social and a generic source without
\* credentials
C5_SkippedAndNoticedOnce ==
  /\ ~useTwitter
  /\ pc = "done"
  /\ sources = <<SrcOpenAI, SrcNews>>
  /\ Len(calls) = 1
  /\ calls[1] = Call("generic", 2, SrcNews)
  /\ CountLines("skipX") = 1
  /\ CountLines("summary") = 1

\* the steps the run has left at most: strictly smaller after every step
Remaining ==
  IF pc = "done"
  THEN 0
  ELSE 2 * (Len(sources) + 1 - idx) + (IF pc = "loop" THEN 1 ELSE 0)

\* the loop takes the entries once each, in list order, calls a backend at
\* most once per entry, and is never stuck before it has returned
C6_OncePerEntryInOrder ==
  /\ visited = [i \in 1..Len(visited) |-> i]
  /\ Len(visited) <= Len(sources)
  /\ pc = "done" => Len(visited) = Len(sources)
  /\ \A e \in 1..Len(sources) :
       Cardinality({k \in 1..Len(calls) : calls[k].entry = e}) <= 1
  /\ Remaining >= 0
  /\ pc # "done" => ENABLED Next

\* C6: the loop of scrapeSources terminates after taking every entry exactly
\* once in list order: every step, a failed call included, strictly lowers
\* the bounded measure Remaining, a step is possible until the run has
\* returned, each entry causes at most one backend call, and at the return
\* every entry has been taken.
C6_LoopTerminates ==
  /\ [](C6_OncePerEntryInOrder)
  /\ [][Remaining' < Remaining]_vars

\* the call for the first entry failed and the second entry was processed
C6_FailureThenNextEntry ==
  /\ pc = "done"
  /\ visited = <<1, 2>>
  /\ Len(responses) = 2
  /\ responses[1].entry = 1
  /\ FailedResponse(responses[1])
  /\ responses[2].entry = 2
  /\ ~FailedResponse(responses[2])
  /\ Len(returned) > 0

\* the URL the classifier is meant to read from a source string
SourceURL(s) == URL(IF startsWith(s, HttpPrefix) THEN s ELSE HttpsScheme \o s)

\* the host is x.com or twitter.com or a dot-separated subdomain of one
IsSocialHost(h) ==
  \/ h = XDomain
  \/ h = TwitterDomain
  \/ endsWith(h, <<".">> \o XDomain)
  \/ endsWith(h, <<".">> \o TwitterDomain)

\* the source is on a social host
onSocialHost ==
  [s \in SourceStrings |->
     SourceURL(s).ok /\ IsSocialHost(toLowerCase(SourceURL(s).hostname))]

\* the source is on a social host and its first non-empty path segment is
\* i, hashtag or search in any letter case
reservedSocialPath ==
  [s \in SourceStrings |->
     /\ onSocialHost[s]
     /\ LET segments == filterBoolean(split(SourceURL(s).pathname, "/"))
        IN  /\ segments # <<>>
            /\ toLowerCase(segments[1]) \in
                 {<<"i">>, <<"h", "a", "s", "h", "t", "a", "g">>,
                  <<"s", "e", "a", "r", "c", "h">>}]

\* C7: a source on a social host whose first path segment is a reserved
\* keyword in any letter case yields no username, and the aggregator hands it
\* to the generic backend and never to the social backend.
C7_ReservedPathIsGeneric ==
  \A i \in 1..Len(visited) :
    reservedSocialPath[sources[visited[i]]] =>
      /\ usernameOf[sources[visited[i]]].isNull
      /\ CallsOf("social", visited[i]) = {}
      /\ Cardinality(CallsOf("generic", visited[i])) = 1

\* with credentials, "https://X.com/Search?q=ai" and
\* "mobile.twitter.com/I/lists" were handed to the generic backend
C7_ReservedPathsSentToGeneric ==
  /\ useTwitter
  /\ pc = "done"
  /\ sources = <<SrcSearch, SrcSubdomainI>>
  /\ Len(calls) = 2
  /\ calls[1].backend = "generic"
  /\ calls[2].backend = "generic"

\* what a finished call contributes: its story list if it succeeded
Contribution(r) ==
  IF r.backend = "social"
  THEN LET result == fetchTweetsFromApify(TRUE, r.social)
       IN  IF result.threw THEN <<>> ELSE result.stories
  ELSE IF r.generic.kind = "return" /\ r.generic.success
          /\ r.generic.stories.k = "array"
       THEN r.generic.stories.v
       ELSE <<>>

RECURSIVE Contributions(_)
Contributions(rs) ==
  IF rs = <<>> THEN <<>> ELSE Contribution(Head(rs)) \o Contributions(Tail(rs))

\* C9: the accumulated list is at every moment the concatenation, in
\* source-list order, of the story lists of the calls that succeeded; a
\* failed call or a payload without stories adds nothing and leaves the
\* earlier stories as they were; the returned list is that concatenation.
C9_ResultIsConcatenation ==
  /\ stories = Contributions(responses)
  /\ \A k1, k2 \in 1..Len(responses) :
       k1 < k2 => responses[k1].entry < responses[k2].entry
  /\ pc = "done" => returned = Contributions(responses)

\* a generic source brought three stories, the social call after it failed,
\* and the three stories were returned
C9_FailureLeavesEarlierStories ==
  /\ pc = "done"
  /\ Len(responses) = 2
  /\ responses[1].backend = "generic"
  /\ ~FailedResponse(responses[1])
  /\ responses[2].backend = "social"
  /\ FailedResponse(responses[2])
  /\ returned = <<StoryG1, StoryG2, StoryG1Again>>

\* C10: a source is classified social, and sent to the social backend, only
\* if its hostname is x.com or twitter.com or a dot-separated subdomain of
\* one of them.
C10_SocialOnlyOnSocialHost ==
  /\ \A i \in 1..Len(visited) :
       Truthy(usernameOf[sources[visited[i]]]) => onSocialHost[sources[visited[i]]]
  /\ \A k \in 1..Len(calls) :
       calls[k].backend = "social" => onSocialHost[sources[calls[k].entry]]

====
